---- MODULE Spec2Model ----
(***************************************************************************)
(* Model of src/src/analysis.py: parse_frequency_file, group_plural_words  *)
(* and compare_frequency_files (with its nested generate_analysis).        *)
(*                                                                         *)
(* Text is a sequence of one-character strings; a Python dict is a record  *)
(* [keys, val]: keys is the insertion order (the order a dict iterates     *)
(* in), val the mapping.  Two dicts are equal in Python when their val     *)
(* fields are equal.                                                       *)
(***************************************************************************)
EXTENDS Integers, Sequences, FiniteSets, TLC

VARIABLES
    pc,               \* position in the function being run
    lines,            \* parse_frequency_file: the lines of the open file
    pos,              \* parse_frequency_file: number of lines consumed by the for loop
    freq_dict,        \* parse_frequency_file: freq_dict / group_plural_words: its argument
    total_count,      \* parse_frequency_file: total_count
    normalized_dict,  \* parse_frequency_file: normalized_dict
    grouped_dict,     \* group_plural_words: first call, returned grouped_dict
    mapping,          \* group_plural_words: first call, returned mapping
    regrouped_dict,   \* group_plural_words applied to grouped_dict: grouped_dict
    remapping,        \* group_plural_words applied to grouped_dict: mapping
    top_n,            \* compare_frequency_files: argument top_n
    txt_output_path,  \* compare_frequency_files: argument txt_output_path
    csv_output_path,  \* compare_frequency_files: argument csv_output_path
    freq1, freq2,                   \* compare_frequency_files locals
    grouped_freq1, grouped_freq2,
    mapping1, mapping2,
    total_count1, total_count2,
    norm1, norm2,
    sorted_all_words, unique_to_file1, unique_to_file2,
    fs                \* the file system: path -> content written

parseVars == <<lines, pos, freq_dict, total_count, normalized_dict>>
groupVars == <<grouped_dict, mapping, regrouped_dict, remapping>>
argVars == <<top_n, txt_output_path, csv_output_path>>
cmpVars == <<freq1, freq2, grouped_freq1, grouped_freq2, mapping1, mapping2,
             total_count1, total_count2, norm1, norm2,
             sorted_all_words, unique_to_file1, unique_to_file2, fs>>
vars == <<pc, parseVars, groupVars, argVars, cmpVars>>

(***************************************************************************)
(* Bounds of the model.                                                    *)
(***************************************************************************)
MaxLines == 3
MaxKeys == 3
MaxCmpLines == 3
MaxTopN == 2

(***************************************************************************)
(* Text helpers: str.strip, str.lower, str.split(':'), int(str).           *)
(***************************************************************************)
Whitespace == {" ", "\t", "\n", "\r"}

Digits == <<"0", "1", "2", "3", "4", "5", "6", "7", "8", "9">>

Upper == <<"A", "B", "C", "D", "E", "F", "G", "H", "I", "J", "K", "L", "M",
           "N", "O", "P", "Q", "R", "S", "T", "U", "V", "W", "X", "Y", "Z">>

Lower == <<"a", "b", "c", "d", "e", "f", "g", "h", "i", "j", "k", "l", "m",
           "n", "o", "p", "q", "r", "s", "t", "u", "v", "w", "x", "y", "z">>

Range(s) == {s[i] : i \in DOMAIN s}

IsDigit(c) == \E i \in DOMAIN Digits : Digits[i] = c

DigitVal(c) == (CHOOSE i \in DOMAIN Digits : Digits[i] = c) - 1

LowerChar(c) ==
    IF \E i \in DOMAIN Upper : Upper[i] = c
    THEN Lower[CHOOSE i \in DOMAIN Upper : Upper[i] = c]
    ELSE c

StrLower(s) == [i \in DOMAIN s |-> LowerChar(s[i])]

RECURSIVE LStrip(_)
LStrip(s) ==
    IF s # <<>> /\ Head(s) \in Whitespace THEN LStrip(Tail(s)) ELSE s

RECURSIVE RStrip(_)
RStrip(s) ==
    IF s # <<>> /\ s[Len(s)] \in Whitespace
    THEN RStrip(SubSeq(s, 1, Len(s) - 1))
    ELSE s

Strip(s) == RStrip(LStrip(s))

RECURSIVE SplitFrom(_, _, _)
SplitFrom(s, i, cur) ==
    IF i > Len(s) THEN <<cur>>
    ELSE IF s[i] = ":" THEN <<cur>> \o SplitFrom(s, i + 1, <<>>)
    ELSE SplitFrom(s, i + 1, Append(cur, s[i]))

SplitColon(s) == SplitFrom(s, 1, <<>>)

\* The part of an integer literal after its sign: digits, with single
\* underscores allowed between digits.
IsDigitString(b) ==
    /\ b # <<>>
    /\ \A i \in DOMAIN b : IsDigit(b[i]) \/ b[i] = "_"
    /\ IsDigit(b[1]) /\ IsDigit(b[Len(b)])
    /\ \A i \in 1..(Len(b) - 1) : ~(b[i] = "_" /\ b[i + 1] = "_")

Unsigned(s) == IF s # <<>> /\ Head(s) \in {"+", "-"} THEN Tail(s) ELSE s

\* int(s) does not raise ValueError
IsIntLiteral(s) == IsDigitString(Unsigned(Strip(s)))

RECURSIVE DigitsValue(_, _)
DigitsValue(b, acc) ==
    IF b = <<>> THEN acc
    ELSE IF Head(b) = "_" THEN DigitsValue(Tail(b), acc)
    ELSE DigitsValue(Tail(b), 10 * acc + DigitVal(Head(b)))

\* int(s), for s with IsIntLiteral(s)
IntValue(s) ==
    LET t == Strip(s)
        v == DigitsValue(Unsigned(t), 0)
    IN  IF Head(t) = "-" THEN 0 - v ELSE v

(***************************************************************************)
(* Python dicts with insertion order.                                      *)
(***************************************************************************)
EmptyDict == [keys |-> <<>>, val |-> [k \in {} |-> 0]]

Keys(d) == DOMAIN d.val

DictSet(d, k, v) ==
    IF k \in Keys(d)
    THEN [d EXCEPT !.val[k] = v]
    ELSE [keys |-> Append(d.keys, k),
          val |-> [x \in Keys(d) \cup {k} |-> IF x = k THEN v ELSE d.val[x]]]

\* d.get(k, default)
DictGet(d, k, default) == IF k \in Keys(d) THEN d.val[k] ELSE default

RECURSIVE SumSeq(_, _)
SumSeq(d, ks) == IF ks = <<>> THEN 0 ELSE d.val[Head(ks)] + SumSeq(d, Tail(ks))

\* sum(d.values())
SumValues(d) == SumSeq(d, d.keys)

(***************************************************************************)
(* parse_frequency_file (analysis.py 6-24).                                *)
(***************************************************************************)
\* One iteration of the for loop over the file's lines (lines 10-21).
ParseLine_FirstWins(freq, line) ==
    IF ":" \notin Range(line) THEN freq
    ELSE LET parts == SplitColon(Strip(line))
         IN  IF Len(parts) # 2 THEN freq
             ELSE LET word == StrLower(Strip(parts[1]))
                  IN  IF IsIntLiteral(parts[2]) /\ word \notin Keys(freq)
                      THEN DictSet(freq, word, IntValue(parts[2]))
                      ELSE freq

ParseLine(freq, line) ==
    IF ":" \notin Range(line) THEN freq
    ELSE LET parts == SplitColon(Strip(line))
         IN  IF Len(parts) # 2 THEN freq
             ELSE LET word == StrLower(Strip(parts[1]))
                  IN  IF IsIntLiteral(parts[2])
                      THEN DictSet(freq, word, IntValue(parts[2]))
                      ELSE freq

RECURSIVE ParseLines(_, _)
ParseLines(freq, ls) ==
    IF ls = <<>> THEN freq ELSE ParseLines(ParseLine(freq, Head(ls)), Tail(ls))

\* sum(d.values()) or 1
TotalOrOne(d) == IF SumValues(d) = 0 THEN 1 ELSE SumValues(d)

\* {word: count / total for word, count in d.items()}: each quotient is kept
\* as the exact fraction num / den.
Normalize(d, total) == [w \in Keys(d) |-> [num |-> d.val[w], den |-> total]]

\* The FrequencyTable the call parse_frequency_file(file) returns.
parse_frequency_file(ls) == ParseLines(EmptyDict, ls)

(***************************************************************************)
(* Input lines.                                                            *)
(***************************************************************************)
mouse == <<"m", "o", "u", "s", "e">>
mouses == <<"m", "o", "u", "s", "e", "s">>
mice == <<"m", "i", "c", "e">>
mices == <<"m", "i", "c", "e", "s">>
bus == <<"b", "u", "s">>
bu == <<"b", "u">>

SeqsUpTo(S, n) == UNION {[1..k -> S] : k \in 0..n}

FileLines ==
    { mouse \o <<":", " ", "2", "\n">>,            \* "mouse: 2\n"
      <<"M", "o", "u", "s", "e", ":", "5">>,       \* "Mouse:5"
      <<" ">> \o mice \o <<" ", ":", " ", "1", " ", "\n">>,   \* " mice : 1 \n"
      bus \o <<":", "-", "3", "\n">>,              \* "bus:-3\n"
      bus \o <<":", "1", "_", "0">>,               \* "bus:1_0"
      <<"W", "o", "r", "d", "s", "\n">>,           \* "Words\n" (no colon)
      mice \o <<":", "b", ":", "3">>,              \* "mice:b:3" (two colons)
      mice \o <<":", "x", "1", "\n">>,             \* "mice:x1\n" (count is no integer)
      mouse \o <<":", " ", "\n">> }                \* "mouse: \n" (empty count)

(***************************************************************************)
(* SpecParse: one call of parse_frequency_file on a file of FileLines.     *)
(***************************************************************************)
NoParse ==
    /\ lines = <<>> /\ pos = 0 /\ freq_dict = EmptyDict
    /\ total_count = 0 /\ normalized_dict = <<>>

NoGroup ==
    /\ grouped_dict = EmptyDict /\ mapping = EmptyDict
    /\ regrouped_dict = EmptyDict /\ remapping = EmptyDict

NoCompare ==
    /\ top_n = 0 /\ txt_output_path = <<>> /\ csv_output_path = <<>>
    /\ freq1 = EmptyDict /\ freq2 = EmptyDict
    /\ grouped_freq1 = EmptyDict /\ grouped_freq2 = EmptyDict
    /\ mapping1 = EmptyDict /\ mapping2 = EmptyDict
    /\ total_count1 = 0 /\ total_count2 = 0
    /\ norm1 = <<>> /\ norm2 = <<>>
    /\ sorted_all_words = <<>> /\ unique_to_file1 = <<>> /\ unique_to_file2 = <<>>
    /\ fs = <<>>

InitParse ==
    /\ pc = "parse"
    /\ lines \in SeqsUpTo(FileLines, MaxLines)
    /\ pos = 0
    /\ freq_dict = EmptyDict
    /\ total_count = 0
    /\ normalized_dict = <<>>
    /\ NoGroup /\ NoCompare

\* lines 10-21: the loop body on the next line of the file
ParseStep ==
    /\ pc = "parse"
    /\ pos < Len(lines)
    /\ freq_dict' = ParseLine(freq_dict, lines[pos + 1])
    /\ pos' = pos + 1
    /\ UNCHANGED <<pc, lines, total_count, normalized_dict, groupVars, argVars, cmpVars>>

\* lines 22-24: end of file
ParseReturn ==
    /\ pc = "parse"
    /\ pos = Len(lines)
    /\ total_count' = TotalOrOne(freq_dict)
    /\ normalized_dict' = Normalize(freq_dict, TotalOrOne(freq_dict))
    /\ pc' = "parsed"
    /\ UNCHANGED <<lines, pos, freq_dict, groupVars, argVars, cmpVars>>

NextParse == ParseStep \/ ParseReturn

SpecParse == InitParse /\ [][NextParse]_vars

(***************************************************************************)
(* group_plural_words (analysis.py 26-43).                                 *)
(***************************************************************************)
children == <<"c", "h", "i", "l", "d", "r", "e", "n">>
child == <<"c", "h", "i", "l", "d">>
geese == <<"g", "e", "e", "s", "e">>
goose == <<"g", "o", "o", "s", "e">>

\* line 30
irregulars == [w \in {children, mice, geese} |->
                 IF w = children THEN child ELSE IF w = mice THEN mouse ELSE goose]

\* word[:-1]
DropLast(word) == SubSeq(word, 1, Len(word) - 1)

\* word.endswith('s')
EndsWithS(word) == word # <<>> /\ word[Len(word)] = "s"

\* lines 33-37: the canonical form of word, given the table being grouped
Singular(freq, word) ==
    IF word \in DOMAIN irregulars THEN irregulars[word]
    ELSE IF EndsWithS(word) /\ Len(word) > 3 /\ DropLast(word) \in Keys(freq)
         THEN DropLast(word)
         ELSE word

\* lines 33-41 with the append of line 41 taken for every word
GroupStep_AlwaysAppend(freq, acc, word) ==
    LET singular == Singular(freq, word)
    IN  [grouped_dict |-> DictSet(acc.grouped_dict, singular,
                                  DictGet(acc.grouped_dict, singular, 0) + freq.val[word]),
         mapping |-> DictSet(acc.mapping, singular,
                             Append(DictGet(acc.mapping, singular, <<>>), word))]

\* lines 33-41 with line 39 an assignment instead of +=
GroupStep_Assign(freq, acc, word) ==
    LET singular == Singular(freq, word)
    IN  [grouped_dict |-> DictSet(acc.grouped_dict, singular, freq.val[word]),
         mapping |-> IF word # singular
                     THEN DictSet(acc.mapping, singular,
                                  Append(DictGet(acc.mapping, singular, <<>>), word))
                     ELSE acc.mapping]

\* lines 33-41 with line 41 appending the canonical form
GroupStep_AppendSingular(freq, acc, word) ==
    LET singular == Singular(freq, word)
    IN  [grouped_dict |-> DictSet(acc.grouped_dict, singular,
                                  DictGet(acc.grouped_dict, singular, 0) + freq.val[word]),
         mapping |-> IF word # singular
                     THEN DictSet(acc.mapping, singular,
                                  Append(DictGet(acc.mapping, singular, <<>>), singular))
                     ELSE acc.mapping]

\* lines 33-41 with line 36 testing membership in the table being built
GroupStep_Evolving(freq, acc, word) ==
    LET singular == Singular(acc.grouped_dict, word)
    IN  [grouped_dict |-> DictSet(acc.grouped_dict, singular,
                                  DictGet(acc.grouped_dict, singular, 0) + freq.val[word]),
         mapping |-> IF word # singular
                     THEN DictSet(acc.mapping, singular,
                                  Append(DictGet(acc.mapping, singular, <<>>), word))
                     ELSE acc.mapping]

\* lines 33-41: one iteration of the loop over freq_dict
GroupStep(freq, acc, word) ==
    LET singular == Singular(freq, word)
    IN  [grouped_dict |-> DictSet(acc.grouped_dict, singular,
                                  DictGet(acc.grouped_dict, singular, 0) + freq.val[word]),
         mapping |-> IF word # singular
                     THEN DictSet(acc.mapping, singular,
                                  Append(DictGet(acc.mapping, singular, <<>>), word))
                     ELSE acc.mapping]

RECURSIVE GroupLoop(_, _, _)
GroupLoop(freq, acc, ks) ==
    IF ks = <<>> THEN acc
    ELSE GroupLoop(freq, GroupStep(freq, acc, Head(ks)), Tail(ks))

\* lines 28-43
group_plural_words(freq) ==
    GroupLoop(freq, [grouped_dict |-> EmptyDict, mapping |-> EmptyDict], freq.keys)

(***************************************************************************)
(* SpecGroup: group_plural_words on a parsed table, then on its own result.*)
(***************************************************************************)
Vocabulary == {mouse, mouses, mice, mices, bus, bu}

CountTexts == {<<"1">>, <<"2">>}

GroupLines == {w \o <<":">> \o c : w \in Vocabulary, c \in CountTexts}

InitGroup ==
    /\ pc = "group"
    /\ \E file \in SeqsUpTo(GroupLines, MaxKeys) : freq_dict = parse_frequency_file(file)
    /\ lines = <<>> /\ pos = 0 /\ total_count = 0 /\ normalized_dict = <<>>
    /\ NoGroup /\ NoCompare

\* group_plural_words(freq_dict)
Group ==
    /\ pc = "group"
    /\ grouped_dict' = group_plural_words(freq_dict).grouped_dict
    /\ mapping' = group_plural_words(freq_dict).mapping
    /\ pc' = "grouped"
    /\ UNCHANGED <<parseVars, regrouped_dict, remapping, argVars, cmpVars>>

\* group_plural_words(grouped_dict)
Regroup ==
    /\ pc = "grouped"
    /\ regrouped_dict' = group_plural_words(grouped_dict).grouped_dict
    /\ remapping' = group_plural_words(grouped_dict).mapping
    /\ pc' = "regrouped"
    /\ UNCHANGED <<parseVars, grouped_dict, mapping, argVars, cmpVars>>

NextGroup == Group \/ Regroup

SpecGroup == InitGroup /\ [][NextGroup]_vars

(***************************************************************************)
(* compare_frequency_files (analysis.py 45-115).                           *)
(***************************************************************************)
\* A quotient count / total is kept exact, as num / den.
Zero == [num |-> 0, den |-> 1]

Positive(x) == IF x.den < 0 THEN [num |-> 0 - x.num, den |-> 0 - x.den] ELSE x

FracAdd(x, y) == [num |-> x.num * y.den + y.num * x.den, den |-> x.den * y.den]

\* x >= y
FracGeq(x, y) == Positive(x).num * Positive(y).den >= Positive(y).num * Positive(x).den

\* norm.get(w, 0)
NormGet(norm, w) == IF w \in DOMAIN norm THEN norm[w] ELSE Zero

\* sorted(S, key=..., reverse=True): S is a set, iterated in an order the
\* hashes decide; the sort is stable, so words with equal keys come out in
\* any order.
RECURSIVE SortedSeqs(_, _)
SortedSeqs(S, key) ==
    IF S = {} THEN {<<>>}
    ELSE UNION { {<<m>> \o t : t \in SortedSeqs(S \ {m}, key)} :
                 m \in {x \in S : \A y \in S : FracGeq(key[x], key[y])} }

Min(a, b) == IF a < b THEN a ELSE b

\* s[:n] for n >= 0
Take(s, n) == SubSeq(s, 1, Min(n, Len(s)))

\* line 63 (and 64, with the files exchanged) with common_words not removed
UniqueLists_KeepCommon(grouped_a, grouped_b, norm_a, n) ==
    {Take(t, n) : t \in SortedSeqs(Keys(grouped_a),
                      [w \in Keys(grouped_a) |-> NormGet(norm_a, w)])}

\* line 63 (and 64, with the files exchanged): the values sorted(...)[:top_n] can take
UniqueLists(grouped_a, grouped_b, norm_a, n) ==
    LET common_words == Keys(grouped_a) \cap Keys(grouped_b)
        unique == Keys(grouped_a) \ common_words
    IN  {Take(t, n) : t \in SortedSeqs(unique, [w \in unique |-> NormGet(norm_a, w)])}

\* line 61: the values sorted(all_words, ...)[:top_n] can take
AllWordsLists(grouped_a, grouped_b, norm_a, norm_b, n) ==
    LET all_words == Keys(grouped_a) \cup Keys(grouped_b)
    IN  {Take(t, n) : t \in SortedSeqs(all_words,
            [w \in all_words |-> FracAdd(NormGet(norm_a, w), NormGet(norm_b, w))])}

(***************************************************************************)
(* generate_analysis (analysis.py 66-104).  A line of text is a sequence   *)
(* of pieces of text whose concatenation is the line.                      *)
(***************************************************************************)
RECURSIVE NatText(_)
NatText(n) == IF n < 10 THEN <<Digits[n + 1]>> ELSE NatText(n \div 10) \o <<Digits[(n % 10) + 1]>>

Abs(n) == IF n < 0 THEN 0 - n ELSE n

\* round(|x| * 10000), x = num / den, ties to even
Hundredths(x) ==
    LET n == Abs(x.num) * 10000
        d == Abs(x.den)
        q == n \div d
        r == n % d
    IN  IF 2 * r > d \/ (2 * r = d /\ q % 2 = 1) THEN q + 1 ELSE q

\* f"{x * 100:.2f}"
FormatPercent(x) ==
    LET h == Hundredths(x)
        \* a negative quotient, or the float -0.0 (0 divided by a negative total)
        neg == Positive(x).num < 0 \/ (x.num = 0 /\ x.den < 0)
    IN  (IF neg THEN <<"-">> ELSE <<>>) \o NatText(h \div 100) \o <<".">>
        \o <<Digits[((h \div 10) % 10) + 1], Digits[(h % 10) + 1]>>

\* ', '.join(ws)
RECURSIVE JoinComma(_)
JoinComma(ws) ==
    IF ws = <<>> THEN <<>>
    ELSE IF Len(ws) = 1 THEN ws[1]
    ELSE ws[1] \o <<", ">> \o JoinComma(Tail(ws))

\* line 68
header == <<"Word", "\t", "Relative Frequency (%)", "\t", "Grouped">>

\* "=" * 50
RuleLength == 50

RuleLine == [i \in 1..RuleLength |-> "="]

\* lines 76-79: the line of one word
WordLine(word, norm_dict, mapping_dict) ==
    word \o <<"\t">> \o FormatPercent(NormGet(norm_dict, word)) \o <<"\t">>
    \o JoinComma(DictGet(mapping_dict, word, <<>>))

\* line 81: the csv row of one word
WordRow(word, norm_dict, mapping_dict) ==
    <<word, FormatPercent(NormGet(norm_dict, word)),
      JoinComma(DictGet(mapping_dict, word, <<>>))>>

\* lines 67-69 and 75-80: output_lines when the loop is over
OutputLines(word_list, norm_dict, mapping_dict) ==
    <<header>> \o [i \in DOMAIN word_list |-> WordLine(word_list[i], norm_dict, mapping_dict)]

\* lines 73 and 81: csv_data when the loop is over
CsvData(word_list, norm_dict, mapping_dict) ==
    <<<<<<"Word">>, <<"Relative Frequency (%)">>, <<"Grouped">>>>>>
    \o [i \in DOMAIN word_list |-> WordRow(word_list[i], norm_dict, mapping_dict)]

\* lines 87-93: the text written to txt_file
TextFile(word_list, title, norm_dict, mapping_dict) ==
    <<<<title>>, RuleLine, header>> \o OutputLines(word_list, norm_dict, mapping_dict)

\* lines 99-103: the rows handed to the csv writer
CsvFile(word_list, norm_dict, mapping_dict, total1, total2) ==
    << << <<"Total Word Count">>,
          <<"2024: ">> \o (IF total1 < 0 THEN <<"-">> ELSE <<>>) \o NatText(Abs(total1))
              \o <<" (File 1)">>,
          <<"2025: ">> \o (IF total2 < 0 THEN <<"-">> ELSE <<>>) \o NatText(Abs(total2))
              \o <<" (File 2)">>,
          <<>>, <<>> >> >>
    \o CsvData(word_list, norm_dict, mapping_dict)

\* open(path, 'w') ... write: the file at path is replaced
WriteFile(files, path, content) ==
    [q \in DOMAIN files \cup {path} |-> IF q = path THEN content ELSE files[q]]

\* lines 85-104: the file system after generate_analysis
generate_analysis(files, word_list, title, txt_file, csv_file, norm_dict, mapping_dict, total1, total2) ==
    LET afterTxt ==
            IF txt_file # <<>>
            THEN WriteFile(files, txt_file,
                     [kind |-> "txt",
                      content |-> TextFile(word_list, title, norm_dict, mapping_dict)])
            ELSE files
    IN  IF csv_file # <<>>
        THEN WriteFile(afterTxt, csv_file,
                 [kind |-> "csv",
                  content |-> CsvFile(word_list, norm_dict, mapping_dict, total1, total2)])
        ELSE afterTxt

\* path.replace(old, new), for a path cut into pieces so that every occurrence
\* of old is a piece of its own
Replace(path, old, new) == [i \in DOMAIN path |-> IF path[i] = old THEN new ELSE path[i]]

(***************************************************************************)
(* Spec: one call of compare_frequency_files.                              *)
(***************************************************************************)
CmpLines ==
    { mouse \o <<":", " ", "2", "\n">>,      \* "mouse: 2\n"
      mice \o <<":", "1", "\n">>,            \* "mice:1\n"
      bus \o <<":", "-", "1", "\n">>,        \* "bus:-1\n"
      bu \o <<":", "0", "\n">> }             \* "bu:0\n"

CmpFiles == SeqsUpTo(CmpLines, MaxCmpLines)

\* line 124 of the script's main block, and a path that has no ".txt" in it
TxtPaths == {<<"data/", "analysis_output", ".txt">>, <<"data/", "analysis_output">>}

\* line 125
CsvPath == <<"data/", "analysis_output", ".csv">>

Init ==
    /\ pc = "start"
    /\ top_n \in 0..MaxTopN
    /\ txt_output_path \in TxtPaths
    /\ csv_output_path = CsvPath
    /\ freq1 = EmptyDict /\ freq2 = EmptyDict
    /\ grouped_freq1 = EmptyDict /\ grouped_freq2 = EmptyDict
    /\ mapping1 = EmptyDict /\ mapping2 = EmptyDict
    /\ total_count1 = 0 /\ total_count2 = 0
    /\ norm1 = <<>> /\ norm2 = <<>>
    /\ sorted_all_words = <<>> /\ unique_to_file1 = <<>> /\ unique_to_file2 = <<>>
    /\ fs = <<>>
    /\ NoParse /\ NoGroup

\* line 47
ParseFile1 ==
    /\ pc = "start"
    /\ \E file \in CmpFiles :
          /\ freq1' = parse_frequency_file(file)
          /\ total_count1' = TotalOrOne(parse_frequency_file(file))
          /\ norm1' = Normalize(parse_frequency_file(file),
                                TotalOrOne(parse_frequency_file(file)))
    /\ pc' = "parsed1"
    /\ UNCHANGED <<parseVars, groupVars, argVars, freq2, grouped_freq1, grouped_freq2,
                   mapping1, mapping2, total_count2, norm2,
                   sorted_all_words, unique_to_file1, unique_to_file2, fs>>

\* line 48
ParseFile2 ==
    /\ pc = "parsed1"
    /\ \E file \in CmpFiles :
          /\ freq2' = parse_frequency_file(file)
          /\ total_count2' = TotalOrOne(parse_frequency_file(file))
          /\ norm2' = Normalize(parse_frequency_file(file),
                                TotalOrOne(parse_frequency_file(file)))
    /\ pc' = "parsed2"
    /\ UNCHANGED <<parseVars, groupVars, argVars, freq1, grouped_freq1, grouped_freq2,
                   mapping1, mapping2, total_count1, norm1,
                   sorted_all_words, unique_to_file1, unique_to_file2, fs>>

\* lines 50-51
GroupBoth ==
    /\ pc = "parsed2"
    /\ grouped_freq1' = group_plural_words(freq1).grouped_dict
    /\ mapping1' = group_plural_words(freq1).mapping
    /\ grouped_freq2' = group_plural_words(freq2).grouped_dict
    /\ mapping2' = group_plural_words(freq2).mapping
    /\ pc' = "grouped"
    /\ UNCHANGED <<parseVars, groupVars, argVars, freq1, freq2, total_count1, total_count2,
                   norm1, norm2, sorted_all_words, unique_to_file1, unique_to_file2, fs>>

\* lines 53-56
NormalizeBoth ==
    /\ pc = "grouped"
    /\ total_count1' = TotalOrOne(grouped_freq1)
    /\ total_count2' = TotalOrOne(grouped_freq2)
    /\ norm1' = Normalize(grouped_freq1, TotalOrOne(grouped_freq1))
    /\ norm2' = Normalize(grouped_freq2, TotalOrOne(grouped_freq2))
    /\ pc' = "normalized"
    /\ UNCHANGED <<parseVars, groupVars, argVars, freq1, freq2, grouped_freq1, grouped_freq2,
                   mapping1, mapping2, sorted_all_words, unique_to_file1, unique_to_file2, fs>>

\* lines 58-64
Rank ==
    /\ pc = "normalized"
    /\ sorted_all_words' \in AllWordsLists(grouped_freq1, grouped_freq2, norm1, norm2, top_n)
    /\ unique_to_file1' \in UniqueLists(grouped_freq1, grouped_freq2, norm1, top_n)
    /\ unique_to_file2' \in UniqueLists(grouped_freq2, grouped_freq1, norm2, top_n)
    /\ pc' = "ranked"
    /\ UNCHANGED <<parseVars, groupVars, argVars, freq1, freq2, grouped_freq1, grouped_freq2,
                   mapping1, mapping2, total_count1, total_count2, norm1, norm2, fs>>

Title1 == "Words Unique to 2024 (File 1)"

Title2 == "Words Unique to 2025 (File 2)"

TxtFile1 == Replace(txt_output_path, ".txt", "_unique_2024.txt")

CsvFile1 == Replace(csv_output_path, ".csv", "_unique_2024.csv")

TxtFile2 == Replace(txt_output_path, ".txt", "_unique_2025.txt")

CsvFile2 == Replace(csv_output_path, ".csv", "_unique_2025.csv")

\* lines 107-110
ReportUnique1 ==
    /\ pc = "ranked"
    /\ fs' = generate_analysis(fs, unique_to_file1, Title1, TxtFile1, CsvFile1,
                               norm1, mapping1, total_count1, total_count2)
    /\ pc' = "reported1"
    /\ UNCHANGED <<parseVars, groupVars, argVars, freq1, freq2, grouped_freq1, grouped_freq2,
                   mapping1, mapping2, total_count1, total_count2, norm1, norm2,
                   sorted_all_words, unique_to_file1, unique_to_file2>>

\* lines 112-115
ReportUnique2 ==
    /\ pc = "reported1"
    /\ fs' = generate_analysis(fs, unique_to_file2, Title2, TxtFile2, CsvFile2,
                               norm2, mapping2, total_count1, total_count2)
    /\ pc' = "done"
    /\ UNCHANGED <<parseVars, groupVars, argVars, freq1, freq2, grouped_freq1, grouped_freq2,
                   mapping1, mapping2, total_count1, total_count2, norm1, norm2,
                   sorted_all_words, unique_to_file1, unique_to_file2>>

Next ==
    \/ ParseFile1
    \/ ParseFile2
    \/ GroupBoth
    \/ NormalizeBoth
    \/ Rank
    \/ ReportUnique1
    \/ ReportUnique2

Spec == Init /\ [][Next]_vars

(***************************************************************************)
(* Claims about parse_frequency_file, checked under SpecParse.             *)
(***************************************************************************)
ColonCount(line) == Cardinality({i \in DOMAIN line : line[i] = ":"})

ColonAt(line) == CHOOSE i \in DOMAIN line : line[i] = ":"

WordText(line) == SubSeq(line, 1, ColonAt(line) - 1)

CountText(line) == SubSeq(line, ColonAt(line) + 1, Len(line))

\* exactly one colon and an integer after it
WellFormed(line) == ColonCount(line) = 1 /\ IsIntLiteral(CountText(line))

WellFormedRead == {i \in 1..pos : WellFormed(lines[i])}

CanonicalWord(line) == StrLower(Strip(WordText(line)))

\* C5: after any number of lines read, and so when the function returns, the
\* table holds exactly the lowercased, trimmed words of the well-formed lines
\* read, each with the count of the last well-formed line carrying it;
\* malformed lines (no colon, several colons, a count that is no integer)
\* contribute nothing.
C5_LenientLastWriteWins ==
    /\ Keys(freq_dict) = {CanonicalWord(lines[i]) : i \in WellFormedRead}
    /\ \A i \in WellFormedRead :
          (\A j \in WellFormedRead :
              j > i => CanonicalWord(lines[j]) # CanonicalWord(lines[i]))
          => freq_dict.val[CanonicalWord(lines[i])] = IntValue(CountText(lines[i]))

C5_Witness ==
    /\ pc = "parsed"
    /\ \E i, j \in WellFormedRead :
          /\ i < j
          /\ CanonicalWord(lines[i]) = CanonicalWord(lines[j])
          /\ WordText(lines[i]) # WordText(lines[j])
          /\ IntValue(CountText(lines[i])) # IntValue(CountText(lines[j]))
    /\ \E k \in 1..pos : ColonCount(lines[k]) > 1

\* C6: every count stored in the table parse_frequency_file returns is
\* non-negative.
C6_CountsNonNegative ==
    pc = "parsed" => \A w \in Keys(freq_dict) : freq_dict.val[w] >= 0

(***************************************************************************)
(* Claims about group_plural_words, checked under SpecGroup.               *)
(***************************************************************************)
Perms(n) == {p \in [1..n -> 1..n] : \A i, j \in 1..n : p[i] = p[j] => i = j}

\* the same table with its keys inserted in another order
Reorder(d, p) == [keys |-> [i \in DOMAIN d.keys |-> d.keys[p[i]]], val |-> d.val]

Reorderings(d) == {Reorder(d, p) : p \in Perms(Len(d.keys))}

\* C1: the counts of the grouped table sum to the counts of the source table.
C1_Conservation ==
    pc # "group" => SumValues(grouped_dict) = SumValues(freq_dict)

C1_Witness ==
    /\ pc = "grouped"
    /\ Keys(mapping) # {}
    /\ Cardinality(Keys(grouped_dict)) < Cardinality(Keys(freq_dict))

\* C2 as claimed: every word in a value list of the merge map was a key of the
\* source table and is not itself a key of the merge map.
C2_NoTransitiveMerging ==
    pc # "group" =>
        \A c \in Keys(mapping) : \A s \in Range(mapping.val[c]) :
            s \in Keys(freq_dict) /\ s \notin Keys(mapping)

\* C2 as amended: every word in a value list of the merge map was a key of the
\* source table and differs from the canonical word it is listed under.
C2_MergeMapSoundness ==
    pc # "group" =>
        \A c \in Keys(mapping) : \A s \in Range(mapping.val[c]) :
            s \in Keys(freq_dict) /\ s # c

C2_Witness ==
    /\ pc = "grouped"
    /\ \E c \in Keys(mapping) : \E s \in Range(mapping.val[c]) : s \in Keys(mapping)

\* C3 as claimed: grouping the grouped table returns the same table and an empty
\* merge map.
C3_Idempotence ==
    pc = "regrouped" =>
        regrouped_dict.val = grouped_dict.val /\ Keys(remapping) = {}

\* a key of table d that group_plural_words would fold into another word
PluralPattern(d, w) ==
    \/ w \in DOMAIN irregulars
    \/ EndsWithS(w) /\ Len(w) > 3 /\ DropLast(w) \in Keys(d)

\* C3 as amended: when no key of the grouped table is an irregular plural or a
\* word longer than 3 letters ending in "s" whose stem is also a key of the
\* grouped table, grouping the grouped table returns the same table and an
\* empty merge map.
C3_IdempotenceWithoutPlurals ==
    (pc = "regrouped" /\ \A w \in Keys(grouped_dict) : ~PluralPattern(grouped_dict, w))
        => regrouped_dict.val = grouped_dict.val /\ Keys(remapping) = {}

C3_Witness ==
    /\ pc = "regrouped"
    /\ Keys(mapping) # {}
    /\ \A w \in Keys(grouped_dict) : ~PluralPattern(grouped_dict, w)
    /\ \E w \in Keys(grouped_dict) : EndsWithS(w) /\ Len(w) > 3

\* C10 as claimed: whatever the order of the table's keys, the grouped table
\* and the merge map (with its ordered lists) are the same.
C10_OrderIndependence ==
    pc # "group" =>
        \A d \in Reorderings(freq_dict) :
            /\ group_plural_words(d).grouped_dict.val = grouped_dict.val
            /\ group_plural_words(d).mapping.val = mapping.val

\* C10 as amended: whatever the order of the table's keys, the grouped table is
\* the same and the merge map has the same canonical words, each with the same
\* surface forms; only the order within a list follows the iteration order.
C10_OrderIndependenceUpToListOrder ==
    pc # "group" =>
        \A d \in Reorderings(freq_dict) :
            LET r == group_plural_words(d)
            IN  /\ r.grouped_dict.val = grouped_dict.val
                /\ Keys(r.mapping) = Keys(mapping)
                /\ \A c \in Keys(mapping) :
                      /\ Range(r.mapping.val[c]) = Range(mapping.val[c])
                      /\ Len(r.mapping.val[c]) = Len(mapping.val[c])

C10_Witness ==
    /\ pc = "grouped"
    /\ \E c \in Keys(mapping) : Len(mapping.val[c]) > 1
    /\ \E d \in Reorderings(freq_dict) :
          group_plural_words(d).mapping.val # mapping.val

(***************************************************************************)
(* Claims about compare_frequency_files, checked under Spec.               *)
(***************************************************************************)
Normalized == pc \in {"normalized", "ranked", "reported1", "done"}

Ranked == pc \in {"ranked", "reported1", "done"}

WithinUnitInterval(norm) ==
    \A w \in DOMAIN norm : 0 <= norm[w].num /\ norm[w].num <= norm[w].den

SumsToDivisor(grouped, total) == Keys(grouped) # {} => SumValues(grouped) = total

\* C4: every value of norm1 and norm2 lies in [0, 1] (its count is between 0
\* and the divisor), and the values of a non-empty table sum to 1 (its counts
\* sum to the divisor).
C4_NormalizationBounds ==
    Normalized =>
        /\ WithinUnitInterval(norm1) /\ WithinUnitInterval(norm2)
        /\ SumsToDivisor(grouped_freq1, total_count1)
        /\ SumsToDivisor(grouped_freq2, total_count2)

NonIncreasing(s, norm) ==
    \A i, j \in DOMAIN s : i < j => FracGeq(NormGet(norm, s[i]), NormGet(norm, s[j]))

UniqueWords(grouped_a, grouped_b) == Keys(grouped_a) \ Keys(grouped_b)

\* every word of the list ranks at least as high as every word left out of it
KeepsTop(s, candidates, norm) ==
    \A w \in candidates \ Range(s) : \A i \in DOMAIN s :
        FracGeq(NormGet(norm, s[i]), NormGet(norm, w))

\* C7: unique_to_file1 holds only words of grouped table 1 that are no words
\* of grouped table 2, in non-increasing order of their relative frequency in
\* file 1, and as many of them as there are, up to top_n (the most frequent
\* ones); unique_to_file2 likewise with the files exchanged; the two lists
\* share no word.
C7_UniqueWordLists ==
    Ranked =>
        /\ Range(unique_to_file1) \subseteq UniqueWords(grouped_freq1, grouped_freq2)
        /\ Range(unique_to_file2) \subseteq UniqueWords(grouped_freq2, grouped_freq1)
        /\ NonIncreasing(unique_to_file1, norm1)
        /\ NonIncreasing(unique_to_file2, norm2)
        /\ Len(unique_to_file1)
             = Min(top_n, Cardinality(UniqueWords(grouped_freq1, grouped_freq2)))
        /\ Len(unique_to_file2)
             = Min(top_n, Cardinality(UniqueWords(grouped_freq2, grouped_freq1)))
        /\ KeepsTop(unique_to_file1, UniqueWords(grouped_freq1, grouped_freq2), norm1)
        /\ KeepsTop(unique_to_file2, UniqueWords(grouped_freq2, grouped_freq1), norm2)
        /\ Range(unique_to_file1) \cap Range(unique_to_file2) = {}
        /\ Range(unique_to_file1) \cap Keys(grouped_freq2) = {}

C7_Witness ==
    /\ pc = "ranked"
    /\ Keys(grouped_freq1) \cap Keys(grouped_freq2) # {}
    /\ Keys(mapping1) # {}
    /\ Len(unique_to_file1) = 2
    /\ ~FracGeq(NormGet(norm1, unique_to_file1[2]), NormGet(norm1, unique_to_file1[1]))

\* the text file the claim describes for a ranked list
ExpectedTextFile(word_list, title, norm_dict, mapping_dict) ==
    <<<<title>>, RuleLine, header>>
    \o [i \in DOMAIN word_list |-> WordLine(word_list[i], norm_dict, mapping_dict)]

\* C8: the text file written for a ranked list is the title line, a line of 50
\* "=", the header line once, then one line per ranked word in rank order:
\* 3 + len(word_list) lines.
C8_TextReportLayout ==
    /\ pc = "reported1" =>
          /\ fs[TxtFile1].content
               = ExpectedTextFile(unique_to_file1, Title1, norm1, mapping1)
          /\ Len(fs[TxtFile1].content) = 3 + Len(unique_to_file1)
    /\ pc = "done" =>
          /\ fs[TxtFile2].content
               = ExpectedTextFile(unique_to_file2, Title2, norm2, mapping2)
          /\ Len(fs[TxtFile2].content) = 3 + Len(unique_to_file2)

FirstTab(line) == CHOOSE i \in DOMAIN line : line[i] = "\t" /\ \A j \in 1..(i - 1) : line[j] # "\t"

FirstField(line) == SubSeq(line, 1, FirstTab(line) - 1)

IsWordLine(line) == line # header

\* the words a written text file lists, in order
TextWords(content) ==
    LET body == SelectSeq(SubSeq(content, 3, Len(content)), IsWordLine)
    IN  [i \in DOMAIN body |-> FirstField(body[i])]

\* the words a written csv file lists, in order
CsvWords(content) ==
    LET body == SubSeq(content, 3, Len(content))
    IN  [i \in DOMAIN body |-> body[i][1]]

ReportedAsText(word_list) ==
    \E q \in DOMAIN fs : fs[q].kind = "txt" /\ TextWords(fs[q].content) = word_list

ReportedAsCsv(word_list) ==
    \E q \in DOMAIN fs : fs[q].kind = "csv" /\ CsvWords(fs[q].content) = word_list

\* C9: when compare_frequency_files has run to completion, each of
\* sorted_all_words, unique_to_file1 and unique_to_file2 has been written once
\* as a text report and once as a csv report.
C9_EveryRankedSequenceReported ==
    pc = "done" =>
        \A word_list \in {sorted_all_words, unique_to_file1, unique_to_file2} :
            ReportedAsText(word_list) /\ ReportedAsCsv(word_list)

====
